---- MODULE Spec2Model ----
(***************************************************************************)
(* Model of the `Fragmented` protocol middleware                           *)
(* (src/src/proto/fragmented.rs): the reassembly session, its Stream side  *)
(* (poll) and its Sink side (start_send, poll_complete), over an upstream  *)
(* whose answers are chosen nondeterministically.                          *)
(*                                                                         *)
(* Option<T> is modelled as a sequence of length 0 (None) or 1 (Some(x)).  *)
(* Bytes are numbers 0..255; application data is a sequence of bytes.      *)
(***************************************************************************)
EXTENDS Integers, Sequences, FiniteSets, TLC

VARIABLES
    started,        \* self.started
    complete,       \* self.complete
    opcode,         \* self.opcode
    total_length,   \* self.total_length
    buf,            \* self.buf
    pc,             \* "idle": no call in progress; "poll_loop": inside poll's loop
    last,           \* what the latest step did: operation, arm, pulled item, result
    handed,         \* what the latest step passed to upstream.start_send (0 or 1 entry)
    own,            \* history: the fragments of the message now being assembled
    decodeRuns,     \* history: decode chain runs on the message now held complete
    frames,         \* history: number of fragments accumulated so far
    opener          \* history: opcode of the fragment-start that opened the
                    \* message now being assembled (followed in SpecOpener)

vars == <<started, complete, opcode, total_length, buf, pc, last, handed, own,
          decodeRuns, frames, opener>>

----------------------------------------------------------------------------
(* Bounds of the model *)

\* a fragment-start frame without application data carries no payload at
\* all, or ExtLen bytes of extension data
ExtLen == 8094
\* fragments accumulated in one run
MaxFrames == 4
\* bytes held in buf
MaxBuf == 2
\* decode chain runs on one assembled message
MaxDecodeRuns == 2

(* Program constants *)
Utf8CheckLimit == 8096

----------------------------------------------------------------------------
(* Frames and messages (the external frame::base::Frame and frame::WebSocket) *)

None == <<>>
Some(x) == <<x>>

Frame(fin, op, len, data) ==
    [fin |-> fin, opcode |-> op, payload_length |-> len, application_data |-> data]

Msg(kind, base) == [kind |-> kind, base |-> base]

\* byte values: 0xC3 (lead byte of a two-byte character), 0xA9 (continuation
\* byte): 0xC3 0xA9 is a character, 0xC3 alone an unfinished one, 0xA9 alone
\* is invalid
AppDatas == {None, Some(<<195>>), Some(<<169>>)}

DataLen(data) == IF data = None THEN 0 ELSE Len(data[1])

FragmentFrames(fin, ops) ==
    {Frame(fin, op, DataLen(d), d) : op \in ops, d \in AppDatas}

StartMsgs ==
    {Msg("start", Some(f)) : f \in FragmentFrames(FALSE, {"Text", "Binary"})}
        \cup {Msg("start", Some(Frame(FALSE, op, ExtLen, None))) : op \in {"Text", "Binary"}}
        \cup {Msg("start", None)}
ContMsgs ==
    {Msg("cont", Some(f)) : f \in FragmentFrames(FALSE, {"Continue"})}
        \cup {Msg("cont", None)}
FinalMsgs ==
    {Msg("final", Some(f)) : f \in FragmentFrames(TRUE, {"Continue"})}
        \cup {Msg("final", None)}
BadMsgs == {Msg("bad", Some(Frame(TRUE, "Text", 1, Some(<<65>>))))}
OtherMsgs == {Msg("other", Some(Frame(TRUE, "Ping", 0, None))),
              Msg("other", None)}
\* what the caller may pass to start_send
SendMsgs == {Msg("other", Some(Frame(TRUE, "Text", 1, Some(<<169>>))))}

----------------------------------------------------------------------------
(* UTF-8 validation.  The state of the decoder is the number of continuation
   bytes still expected, or -1 once the input can no longer be valid.  (The
   narrower second-byte ranges after 0xE0, 0xED, 0xF0 and 0xF4 are not
   distinguished; the bytes of AppDatas never reach them.) *)

Utf8Step(st, b) ==
    IF st = -1 THEN -1
    ELSE IF st = 0 THEN
        IF b < 128 THEN 0
        ELSE IF b >= 194 /\ b <= 223 THEN 1
        ELSE IF b >= 224 /\ b <= 239 THEN 2
        ELSE IF b >= 240 /\ b <= 244 THEN 3
        ELSE -1
    ELSE IF b >= 128 /\ b <= 191 THEN st - 1 ELSE -1

RECURSIVE Utf8State(_, _)
Utf8State(bytes, n) ==
    IF n = 0 THEN 0 ELSE Utf8Step(Utf8State(bytes, n - 1), bytes[n])

\* util::utf8::validate(&self.buf): Err only when no continuation of the
\* bytes can be valid; an unfinished trailing character is accepted
validate(bytes) == Utf8State(bytes, Len(bytes)) # -1

\* String::from_utf8(app_data.to_vec()).is_ok()
from_utf8(bytes) == Utf8State(bytes, Len(bytes)) = 0

----------------------------------------------------------------------------
(* The per-message extension chain registered for this connection.  Its
   extensions are external and stateful; one run of the chain behaves in one
   of these ways. *)

ExtRuns == {"empty", "fail", "recode"}

\* "empty": no extension is registered.  "fail": an extension's decode
\* returns Err.  "recode": an extension rewrites the application data; the
\* one modelled turns data that is not UTF-8 into the character 0xC3 0xA9
\* and data that is UTF-8 into the lone byte 0xA9.
ExtDecode(frame, ext) ==
    IF ext = "recode" THEN
        IF frame.application_data # None /\ from_utf8(frame.application_data[1])
        THEN [frame EXCEPT !.application_data = Some(<<169>>), !.payload_length = 1]
        ELSE [frame EXCEPT !.application_data = Some(<<195, 169>>), !.payload_length = 2]
    ELSE frame

\* Fragmented::ext_chain_decode: ran = 1 when the chain was run on the frame
ext_chain_decode(frame, ext) ==
    IF frame.fin /\ (frame.opcode = "Text" \/ frame.opcode = "Binary")
    THEN [ok |-> ext # "fail", frame |-> ExtDecode(frame, ext), ran |-> 1]
    ELSE [ok |-> TRUE, frame |-> frame, ran |-> 0]

----------------------------------------------------------------------------
(* The session *)

Self == [started |-> started, complete |-> complete, opcode |-> opcode,
         total_length |-> total_length, buf |-> buf]

\* Fragmented::new
New == [started |-> FALSE, complete |-> FALSE, opcode |-> "Close",
        total_length |-> 0, buf |-> <<>>]

\* (mutant) the new data is put in front of the accumulated data
Accumulate_Prepend(s, base) ==
    [s EXCEPT !.total_length = @ + base.payload_length,
              !.buf = IF base.application_data # None
                      THEN base.application_data[1] \o @ ELSE @]

\* self.total_length += base.payload_length();
\* if let Some(app_data) = base.application_data() { self.buf.extend(app_data); }
Accumulate(s, base) ==
    [s EXCEPT !.total_length = @ + base.payload_length,
              !.buf = IF base.application_data # None
                      THEN @ \o base.application_data[1] ELSE @]

\* the synthetic frame of poll_complete
BuildBase(s) == Frame(TRUE, s.opcode, s.total_length, Some(s.buf))

\* (mutant) the reset clears the buffer and the opcode only
Reset_KeepsFlags(s) == [s EXCEPT !.opcode = "Close", !.buf = <<>>]

\* (mutant) the reset forgets self.complete = false
Reset_KeepsComplete(s) ==
    [s EXCEPT !.started = FALSE, !.opcode = "Close", !.buf = <<>>]

\* "Reset my state." in poll_complete
Reset(s) ==
    [s EXCEPT !.started = FALSE, !.complete = FALSE, !.opcode = "Close",
              !.buf = <<>>]

\* (mutant) the final check accepts an unfinished trailing character
FinalUtf8Ok_Incremental(base) ==
    (base.opcode = "Text" /\ base.fin /\ base.application_data # None)
        => validate(base.application_data[1])

\* the text check of poll_complete on the frame the chain returned
FinalUtf8Ok(base) ==
    (base.opcode = "Text" /\ base.fin /\ base.application_data # None)
        => from_utf8(base.application_data[1])

UpAnswers == {"ready", "notready", "err"}

\* the io::Error an upstream call hands on, if it failed
UpError(answer, call) == IF answer = "err" THEN "upstream " \o call \o " failed" ELSE ""

\* (mutant) the guard of poll_complete forgets to look at complete
ReadyToEmit_StartedOnly(s) == s.started

\* if self.started && self.complete
ReadyToEmit(s) == s.started /\ s.complete

\* Fragmented::poll_complete on session s, where the chain behaves as ext,
\* upstream.start_send answers ss and upstream.poll_complete answers up.
\* handed: the message passed to upstream.start_send (pre: the frame as built,
\* before the chain ran); ran: chain runs.
poll_complete(s, ext, ss, up) ==
    IF ReadyToEmit(s) THEN
        LET base == BuildBase(s)
            dec == ext_chain_decode(base, ext)
            out == [by |-> "session", pre |-> base,
                    msg |-> Msg("other", Some(dec.frame)), answer |-> ss]
        IN  IF ~dec.ok THEN
                [self |-> s, result |-> "err", error |-> "extension decode failed",
                 handed |-> <<>>, ran |-> dec.ran]
            ELSE IF ~FinalUtf8Ok(dec.frame) THEN
                [self |-> s, result |-> "err", error |-> "invalid UTF-8 in text frame",
                 handed |-> <<>>, ran |-> dec.ran]
            ELSE IF ss = "err" THEN
                [self |-> s, result |-> "err", error |-> "upstream start_send failed",
                 handed |-> <<out>>, ran |-> dec.ran]
            ELSE
                [self |-> Reset(s), result |-> up, error |-> UpError(up, "poll_complete"),
                 handed |-> <<out>>, ran |-> dec.ran]
    ELSE [self |-> s, result |-> up, error |-> UpError(up, "poll_complete"),
          handed |-> <<>>, ran |-> 0]

\* (mutant) the guard forgets to look at started
OutOfSequence_CompleteOnly(s) == s.complete

\* the guard of the continuation and final-continuation arms of poll
OutOfSequence(s) == ~s.started \/ s.complete

\* fragment-start arm of poll, up to its call of poll_complete
fragment_start(s, base) ==
    Accumulate([s EXCEPT !.opcode = base.opcode, !.started = TRUE], base)

\* continuation arm of poll, up to its call of poll_complete
fragment(s, base) == Accumulate(s, base)

\* the incremental check of the continuation arm
IncrementalUtf8Ok(s) ==
    (s.opcode = "Text" /\ s.total_length < Utf8CheckLimit) => validate(s.buf)

\* (mutant) the final-continuation arm forgets to set complete
fragment_complete_NoFlag(s, base) == Accumulate(s, base)

\* final-continuation arm of poll, up to its call of poll_complete
fragment_complete(s, base) == Accumulate([s EXCEPT !.complete = TRUE], base)

\* (mutant) the guard forgets to look at complete
BadFragmentRejected_StartedOnly(s) == s.started

\* the guard of the anomalous-fragment arm of poll
BadFragmentRejected(s) == s.started /\ ~s.complete

----------------------------------------------------------------------------
(* History of the message being assembled, kept beside the session: the
   fragments that arrived since the last message was delivered.
   phase: "idle" no sequence open; "open" fragment-start and continuations
   arrived in order without error; "closed" the final-continuation arrived
   too; "dirty" anything else (an error, or a fragment out of sequence). *)

OwnIdle == [phase |-> "idle", data |-> <<>>, len |-> 0, opcode |-> "Close"]
OwnDirty == [phase |-> "dirty", data |-> <<>>, len |-> 0, opcode |-> "Close"]

OwnAppend(o, base, phase) ==
    [o EXCEPT !.phase = phase,
              !.len = @ + base.payload_length,
              !.data = IF base.application_data = None THEN @
                       ELSE @ \o base.application_data[1]]

\* the history after message m arrived
OwnArrive(o, m) ==
    IF m.kind \notin {"start", "cont", "final"} THEN o
    ELSE IF m.base = None THEN o
    ELSE IF m.kind = "start" THEN
        IF o.phase = "idle"
        THEN OwnAppend([OwnIdle EXCEPT !.opcode = m.base[1].opcode], m.base[1], "open")
        ELSE OwnDirty
    ELSE IF o.phase = "open" THEN
        OwnAppend(o, m.base[1], IF m.kind = "final" THEN "closed" ELSE "open")
    ELSE IF o.phase = "idle" THEN o
    ELSE OwnDirty

\* the opener after message m arrived: the first fragment-start since the
\* last delivery opens the message
OpenerArrive(op, o, m) ==
    IF op = "untracked" THEN op
    ELSE IF m.kind = "start" /\ m.base # None /\ o.phase = "idle"
    THEN m.base[1].opcode
    ELSE op

\* the opener after the step passed `hd` upstream
OpenerResult(op, hd) ==
    IF op = "untracked" THEN op
    ELSE IF hd # <<>> /\ hd[1].by = "session" /\ hd[1].answer = "ready" THEN "none"
    ELSE op

\* the history after the step ended with `result`, having passed `hd` upstream
OwnResult(o, result, hd) ==
    IF hd # <<>> /\ hd[1].by = "session" /\ hd[1].answer = "ready" THEN OwnIdle
    ELSE IF result = "err" /\ o.phase # "idle" THEN OwnDirty
    ELSE o

----------------------------------------------------------------------------
(* Steps *)

SetSelf(s) ==
    /\ started' = s.started
    /\ complete' = s.complete
    /\ opcode' = s.opcode
    /\ total_length' = s.total_length
    /\ buf' = s.buf

SetSelfInit ==
    /\ started = New.started
    /\ complete = New.complete
    /\ opcode = New.opcode
    /\ total_length = New.total_length
    /\ buf = New.buf

\* flush: what self.poll_complete() answered inside poll ("none": not called)
ObserveFlush(op, arm, item, result, error, ret, flush) ==
    last' = [op |-> op, arm |-> arm, item |-> item, result |-> result,
             error |-> error, ret |-> ret, flush |-> flush]

Observe(op, arm, item, result, error, ret) ==
    ObserveFlush(op, arm, item, result, error, ret, "none")

\* the entries of hd, each with the history `o` and the opener `op` of the
\* message it carries
Of(hd, o, op) == [i \in 1..Len(hd) |-> [by |-> hd[i].by, pre |-> hd[i].pre,
                                         msg |-> hd[i].msg, answer |-> hd[i].answer,
                                         of |-> o, opener |-> op]]

CanPoll == pc \in {"idle", "poll_loop"}

\* the answers <<chain, upstream.start_send, upstream.poll_complete>> that a
\* call of poll_complete on session s can meet: the later ones are asked only
\* when the earlier ones succeeded
Outcomes(s) ==
    IF ReadyToEmit(s) THEN
        {<<"fail", "ready", "ready">>}
            \cup {<<e, "err", "ready">> : e \in ExtRuns \ {"fail"}}
            \cup {<<e, ss, up>> : e \in ExtRuns \ {"fail"},
                                  ss \in {"ready", "notready"}, up \in UpAnswers}
    ELSE {<<"empty", "ready", up>> : up \in UpAnswers}

\* (mutant) poll returns once the flush succeeded, in place of looping
Try_Return(result) == IF result = "err" THEN "err" ELSE "ready"

\* (mutant) try_ready! in place of `?`: NotReady of the flush is returned
Try_Ready(result) == IF result = "ready" THEN "continue" ELSE result

\* self.poll_complete()?; in poll: Err is returned, Ready and NotReady are
\* dropped and the loop goes on
Try(result) == IF result = "err" THEN "err" ELSE "continue"

\* a poll iteration that accumulated a fragment into s1 and then called
\* self.poll_complete()?; the loop goes on unless that call failed
AccumulateStep(arm, m, s1) ==
    \E o \in Outcomes(s1) :
        LET r == poll_complete(s1, o[1], o[2], o[3])
            res == Try(r.result)
            runs == (IF complete THEN decodeRuns ELSE 0) + r.ran
        IN  /\ frames < MaxFrames
            /\ Len(s1.buf) <= MaxBuf
            /\ runs <= MaxDecodeRuns
            /\ SetSelf(r.self)
            /\ pc' = IF res = "continue" THEN "poll_loop" ELSE "idle"
            /\ ObserveFlush("poll", arm, Some(m), res,
                            IF res = "err" THEN r.error ELSE "", None, r.result)
            /\ handed' = Of(r.handed, OwnArrive(own, m), OpenerArrive(opener, own, m))
            /\ own' = OwnResult(OwnArrive(own, m), res, r.handed)
            /\ opener' = OpenerResult(OpenerArrive(opener, own, m), r.handed)
            /\ decodeRuns' = runs
            /\ frames' = frames + 1

\* a poll iteration that returns without touching the session
ReturnStep(arm, item, result, error, ret) ==
    /\ pc' = "idle"
    /\ Observe("poll", arm, item, result, error, ret)
    /\ handed' = <<>>
    /\ own' = OwnResult(own, result, <<>>)
    /\ UNCHANGED <<started, complete, opcode, total_length, buf, decodeRuns,
                   frames, opener>>

\* try_ready!(self.upstream.poll()) answers NotReady
PollNotReady ==
    /\ CanPoll
    /\ ReturnStep("upstream", None, "notready", "", None)

\* try_ready!(self.upstream.poll()) answers Err
PollUpstreamErr ==
    /\ CanPoll
    /\ ReturnStep("upstream", None, "err", UpError("err", "poll"), None)

\* (mutant) a fragment-start without base frame is handed to the caller
start_without_base_PassThrough == [result |-> "ready", error |-> ""]

\* the else branch of `if let Some(base) = msg.base()` in the fragment-start arm
start_without_base ==
    [result |-> "err", error |-> "invalid fragment start frame received"]

\* Some(ref msg) if msg.is_fragment_start()
PollFragmentStart ==
    /\ CanPoll
    /\ \E m \in StartMsgs :
        IF m.base # None
        THEN AccumulateStep("start", m, fragment_start(Self, m.base[1]))
        ELSE ReturnStep("start", Some(m), start_without_base.result,
                        start_without_base.error,
                        IF start_without_base.result = "ready"
                        THEN Some(Some(m)) ELSE None)

\* Some(ref msg) if msg.is_fragment()
PollFragment ==
    /\ CanPoll
    /\ \E m \in ContMsgs :
        IF OutOfSequence(Self) \/ m.base = None
        THEN ReturnStep("cont", Some(m), "err", "invalid fragment frame received", None)
        ELSE LET s1 == fragment(Self, m.base[1])
             IN  IF IncrementalUtf8Ok(s1)
                 THEN AccumulateStep("cont", m, s1)
                 ELSE \* the fragment stays accumulated; poll returns Err
                      /\ frames < MaxFrames
                      /\ Len(s1.buf) <= MaxBuf
                      /\ SetSelf(s1)
                      /\ pc' = "idle"
                      /\ Observe("poll", "cont", Some(m), "err",
                                 "error during UTF-8 validation", None)
                      /\ handed' = <<>>
                      /\ own' = OwnResult(OwnArrive(own, m), "err", <<>>)
                      /\ frames' = frames + 1
                      /\ UNCHANGED <<decodeRuns, opener>>

\* Some(ref msg) if msg.is_fragment_complete()
PollFragmentComplete ==
    /\ CanPoll
    /\ \E m \in FinalMsgs :
        IF OutOfSequence(Self) \/ m.base = None
        THEN ReturnStep("final", Some(m), "err",
                        "invalid fragment complete frame received", None)
        ELSE AccumulateStep("final", m, fragment_complete(Self, m.base[1]))

\* Some(ref msg) if msg.is_badfragment()
PollBadFragment ==
    /\ CanPoll
    /\ \E m \in BadMsgs :
        IF BadFragmentRejected(Self)
        THEN ReturnStep("bad", Some(m), "err",
                        "invalid opcode for continuation fragment", None)
        ELSE ReturnStep("bad", Some(m), "ready", "", Some(Some(m)))

\* (mutant) poll returns a fresh default message in place of the one pulled
pass_through_Default(m) == IF m = None THEN None ELSE Some(Msg("other", None))

\* m => return Ok(Async::Ready(m)): what poll returns for item m
pass_through(m) == m

\* the last arm of poll: any other message, or the end of the stream
PollOther ==
    /\ CanPoll
    /\ \E item \in {Some(m) : m \in OtherMsgs} \cup {None} :
        ReturnStep("other", item, "ready", "", Some(pass_through(item)))

\* (mutant) NotReady of the upstream is swallowed, as if written with `?`
start_send_DropsNotReady(s, item, ss) ==
    [self |-> s, forwarded |-> item,
     result |-> IF ss = "err" THEN "err" ELSE "ready",
     error |-> UpError(ss, "start_send"), ret |-> None]

\* Fragmented::start_send on session s, where upstream.start_send answers ss;
\* ret: the item handed back with AsyncSink::NotReady
start_send(s, item, ss) ==
    [self |-> s, forwarded |-> item, result |-> ss,
     error |-> UpError(ss, "start_send"),
     ret |-> IF ss = "notready" THEN Some(Some(item)) ELSE None]

\* Fragmented::start_send, called by the caller
StartSend ==
    /\ pc = "idle"
    /\ \E item \in SendMsgs, ss \in UpAnswers :
        LET r == start_send(Self, item, ss)
        IN  /\ SetSelf(r.self)
            /\ Observe("start_send", "none", Some(item), r.result, r.error, r.ret)
            /\ handed' = <<[by |-> "caller", pre |-> r.forwarded.base[1],
                            msg |-> r.forwarded, answer |-> ss, of |-> OwnIdle,
                            opener |-> opener]>>
            /\ own' = own
            /\ UNCHANGED <<pc, decodeRuns, frames, opener>>

\* Fragmented::poll_complete, called by the caller
PollComplete ==
    /\ pc = "idle"
    /\ \E o \in Outcomes(Self) :
        LET r == poll_complete(Self, o[1], o[2], o[3])
            runs == (IF complete THEN decodeRuns ELSE 0) + r.ran
        IN  /\ runs <= MaxDecodeRuns
            /\ SetSelf(r.self)
            /\ Observe("poll_complete", "none", None, r.result, r.error, None)
            /\ handed' = Of(r.handed, own, opener)
            /\ own' = OwnResult(own, r.result, r.handed)
            /\ opener' = OpenerResult(opener, r.handed)
            /\ decodeRuns' = runs
            /\ UNCHANGED <<pc, frames>>

\* the state after Fragmented::new, the opener history starting as op
InitWith(op) ==
    /\ SetSelfInit
    /\ pc = "idle"
    /\ last = [op |-> "new", arm |-> "none", item |-> None, result |-> "new",
               error |-> "", ret |-> None, flush |-> "none"]
    /\ handed = <<>>
    /\ own = OwnIdle
    /\ decodeRuns = 0
    /\ frames = 0
    /\ opener = op

Init == InitWith("untracked")

\* the same start, with the opener of every message followed
InitOpener == InitWith("none")

Next ==
    \/ PollNotReady
    \/ PollUpstreamErr
    \/ PollFragmentStart
    \/ PollFragment
    \/ PollFragmentComplete
    \/ PollBadFragment
    \/ PollOther
    \/ StartSend
    \/ PollComplete

Spec == Init /\ [][Next]_vars

\* the runs in which the caller never calls poll_complete
NextNoFlush ==
    \/ PollNotReady
    \/ PollUpstreamErr
    \/ PollFragmentStart
    \/ PollFragment
    \/ PollFragmentComplete
    \/ PollBadFragment
    \/ PollOther
    \/ StartSend

SpecNoFlush == Init /\ [][NextNoFlush]_vars

\* the runs of Spec, with the opener of every message followed
SpecOpener == InitOpener /\ [][Next]_vars

----------------------------------------------------------------------------
(* Properties *)

SessionHanded == {i \in 1..Len(handed) : handed[i].by = "session"}

SessionUnchanged == UNCHANGED <<started, complete, opcode, total_length, buf>>

\* C1: when a fragment-start, its continuations and its final-continuation
\* were processed in order from Idle without error, the application data of
\* the synthetic frame passed to upstream.start_send (as built, before the
\* extension chain) is the concatenation of those fragments' data in arrival
\* order, and nothing else.
C1_Concatenation ==
    \A i \in SessionHanded :
        handed[i].of.phase = "closed"
            => handed[i].pre.application_data = Some(handed[i].of.data)

C1_Witness ==
    /\ last.op = "poll" /\ last.arm = "final" /\ last.result = "continue"
    /\ SessionHanded # {}
    /\ handed[1].of.phase = "closed"
    /\ handed[1].answer = "ready"
    /\ handed[1].pre.application_data = Some(<<195, 169>>)
    /\ frames = 4

\* C2: the payload length of every synthetic frame is the sum of the payload
\* lengths of that message's own fragments, also for the second and later
\* messages of a session.
C2_PayloadLengthOwnSum ==
    \A i \in SessionHanded :
        handed[i].of.phase = "closed"
            => handed[i].pre.payload_length = handed[i].of.len

\* C3: whenever started and complete are both false, the session equals the
\* one Fragmented::new builds: buf empty, total_length 0, opcode the sentinel.
C3_IdleEqualsNew ==
    (~started /\ ~complete) => Self = New

\* C4: a continuation or final-continuation pulled while started is false
\* makes poll return an error and leaves every session field unchanged.
C4_FragmentWhileIdleFails ==
    [][(last'.op = "poll" /\ last'.arm \in {"cont", "final"} /\ ~started)
        => (last'.result = "err" /\ SessionUnchanged)]_vars

C4_Witness ==
    /\ last.op = "poll" /\ last.arm = "final" /\ last.result = "err"
    /\ last.error = "invalid fragment complete frame received"
    /\ last.item[1].base # None
    /\ ~started /\ ~complete
    /\ frames > 0

\* C5: a fragment-start pulled while a sequence is open (started, not
\* complete) always makes poll return an error.
C5_SecondStartFails ==
    [][(last'.op = "poll" /\ last'.arm = "start" /\ started /\ ~complete)
        => last'.result = "err"]_vars

\* C6: the session never passes to upstream.start_send a text message whose
\* application data, as the extension chain left it, is not valid UTF-8;
\* the call that held such a message complete ends in an error.
C6_NoInvalidTextHanded ==
    /\ \A i \in SessionHanded :
        LET f == handed[i].msg.base[1]
        IN  (f.opcode = "Text" /\ f.application_data # None)
                => from_utf8(f.application_data[1])
    /\ (started /\ complete /\ last.op \in {"poll", "poll_complete"}
            /\ last.arm \in {"start", "final", "none"})
        => last.result = "err"

\* the chain turned valid text of any size into invalid text: refused
C6_Witness ==
    /\ last.result = "err" /\ last.error = "invalid UTF-8 in text frame"
    /\ started /\ complete /\ opcode = "Text"
    /\ from_utf8(buf) /\ buf # <<>>
    /\ total_length >= Utf8CheckLimit
    /\ handed = <<>>

\* C7: in every text message (the first or a later one) whose own size stays
\* below 8096 bytes, no continuation is accepted that leaves the accumulated
\* data invalid UTF-8: poll fails at the first such continuation.
C7_EarliestRejection ==
    (last.op = "poll" /\ last.arm = "cont" /\ last.result = "continue"
        /\ own.phase = "open" /\ own.opcode = "Text" /\ own.len < Utf8CheckLimit)
    => validate(own.data)

\* C8: an item that is none of fragment-start, continuation,
\* final-continuation, anomalous-fragment (the end of the stream included) is
\* returned by poll unchanged, in any session state, and the session fields
\* stay as they were.
C8_PassThrough ==
    [][(last'.op = "poll" /\ last'.arm = "other")
        => (last'.result = "ready" /\ last'.ret = Some(last'.item)
            /\ SessionUnchanged)]_vars

C8_Witness ==
    /\ last.op = "poll" /\ last.arm = "other" /\ last.result = "ready"
    /\ last.item # None /\ last.ret = Some(last.item)
    /\ started /\ ~complete /\ buf # <<>>

\* C9 as written: in a run where the caller never calls poll_complete, the
\* session passes no synthetic message to upstream.start_send.
C9_NothingWithoutFlush == SessionHanded = {}

\* C9 amended: in a run where the caller never calls poll_complete, the
\* synthetic message is passed to upstream.start_send by poll itself: in the
\* iteration that accumulates the final-continuation (or in a fragment-start
\* iteration that retries a failed attempt) and at no other point, and
\* every final-continuation accumulated without error is followed by it.
C9_EmittedInsidePoll ==
    /\ SessionHanded # {} => (last.op = "poll" /\ last.arm \in {"start", "final"})
    /\ (last.op = "poll" /\ last.arm = "final" /\ last.result = "continue")
        => SessionHanded # {}

C9_Witness ==
    /\ last.op = "poll" /\ last.arm = "final" /\ last.result = "continue"
    /\ SessionHanded # {}
    /\ handed[1].answer = "ready"
    /\ ~started /\ ~complete

\* C10: the extension decode chain runs exactly once on each assembled
\* message, also when poll_complete is called again after an emission
\* attempt failed.
C10_DecodedExactlyOnce ==
    /\ decodeRuns <= 1
    /\ SessionHanded # {} => decodeRuns = 1

\* C11: in every reachable state, after any sequence of poll, start_send and
\* poll_complete calls, successful or failing, complete implies started.
C11_CompleteImpliesStarted == complete => started

\* a failed emission attempt left the message complete, and calls went on
C11_Witness ==
    /\ started /\ complete
    /\ last.op = "start_send"
    /\ decodeRuns >= 1

\* C12: every message the session itself passes to upstream.start_send comes
\* from a sequence closed by a final-continuation: started and complete hold
\* when it is built.  A step taken while the sequence is still open, other
\* than the arrival of its final-continuation, emits nothing.
C12_OnlyClosedSequencesEmitted ==
    [][SessionHanded' # {}
        => (started /\ (complete \/ (last'.op = "poll" /\ last'.arm = "final")))]_vars

\* an open sequence met a second fragment-start and then the end of the
\* stream: nothing was emitted
C12_Witness ==
    /\ last.op = "poll" /\ last.arm = "other" /\ last.item = None
    /\ started /\ ~complete
    /\ own.phase = "dirty"
    /\ frames >= 2
    /\ handed = <<>>

\* C13: an anomalous-fragment pulled by poll yields an error exactly when the
\* session is mid-sequence (started, not complete); in every other state it
\* is returned unchanged and the session fields are unchanged.
C13_AnomalousFragment ==
    [][(last'.op = "poll" /\ last'.arm = "bad")
        => IF started /\ ~complete
           THEN last'.result = "err"
           ELSE /\ last'.result = "ready"
                /\ last'.ret = Some(last'.item)
                /\ SessionUnchanged]_vars

\* passed through while a complete message is still held
C13_Witness ==
    /\ last.op = "poll" /\ last.arm = "bad" /\ last.result = "ready"
    /\ last.ret = Some(last.item)
    /\ started /\ complete

\* C14: poll returns a value only for pass-through messages and for anomalous
\* messages met outside an open sequence, and the value is the item pulled;
\* after accumulating a fragment-start, continuation or final-continuation
\* without error it pulls the next upstream item, so the synthetic message is
\* never a return value of poll.
C14_PollReturnsOnlyPulledItems ==
    /\ (last.op = "poll" /\ last.result = "ready")
        => (last.arm \in {"other", "bad"} /\ last.ret = Some(last.item))
    /\ (last.op = "poll" /\ last.arm = "bad" /\ last.result = "ready")
        => ~(started /\ ~complete)
    /\ (last.op = "poll" /\ last.arm \in {"start", "cont", "final"}
            /\ last.result # "err")
        => (last.result = "continue" /\ pc = "poll_loop" /\ last.ret = None)
    /\ pc = "poll_loop" => (last.op = "poll" /\ last.result = "continue")

\* the final-continuation was accumulated and the message emitted upstream:
\* poll is still in its loop and has returned nothing
C14_Witness ==
    /\ last.op = "poll" /\ last.arm = "final" /\ last.result = "continue"
    /\ pc = "poll_loop"
    /\ SessionHanded # {}
    /\ last.ret = None

StartWithoutBase(l) ==
    l.op = "poll" /\ l.arm = "start" /\ l.item # None /\ l.item[1].base = None

\* C15 as written: a fragment-start message that exposes no base frame is
\* returned by poll unchanged, without error, and the session is unchanged.
C15_NoBaseStartPassedThrough ==
    [][StartWithoutBase(last')
        => (last'.result = "ready" /\ last'.ret = Some(last'.item)
            /\ SessionUnchanged)]_vars

\* C15 amended: a fragment-start message that exposes no base frame makes
\* poll return the error "invalid fragment start frame received"; nothing is
\* returned to the caller and the session is unchanged.
C15_NoBaseStartFails ==
    [][StartWithoutBase(last')
        => (last'.result = "err"
            /\ last'.error = "invalid fragment start frame received"
            /\ last'.ret = None
            /\ SessionUnchanged)]_vars

C15_Witness ==
    /\ StartWithoutBase(last)
    /\ last.result = "err"
    /\ started /\ ~complete /\ buf # <<>>

\* C16: the synthetic frame passed to upstream.start_send always has fin set
\* and the opcode carried by the fragment-start frame that opened that same
\* message.
C16_FinAndOpeningOpcode ==
    \A i \in SessionHanded :
        /\ handed[i].pre.fin
        /\ handed[i].pre.opcode = handed[i].opener

\* C17: poll reports not-ready only when the upstream poll it just called
\* reported not-ready, so with no item pulled; a not-ready answer of the flush
\* called inside poll never makes poll return not-ready.
C17_NotReadyOnlyFromUpstreamPoll ==
    (last.op = "poll" /\ last.result = "notready")
        => (last.arm = "upstream" /\ last.item = None /\ last.flush = "none")

C17_Witness ==
    /\ last.op = "poll" /\ last.arm = "final"
    /\ last.flush = "notready"
    /\ last.result = "continue"
    /\ pc = "poll_loop"
    /\ SessionHanded # {}

\* C18: start_send passes the item unchanged to upstream.start_send, returns
\* the upstream's answer unchanged (NotReady with the item handed back), and
\* leaves started, complete, opcode, total_length and buf unchanged in every
\* session state.
C18_StartSendForwards ==
    [][last'.op = "start_send"
        => /\ SessionUnchanged
           /\ Len(handed') = 1
           /\ handed'[1].by = "caller"
           /\ Some(handed'[1].msg) = last'.item
           /\ last'.result = handed'[1].answer
           /\ last'.error = UpError(handed'[1].answer, "start_send")
           /\ last'.ret = IF handed'[1].answer = "notready"
                          THEN Some(last'.item) ELSE None]_vars

C18_Witness ==
    /\ last.op = "start_send" /\ last.result = "notready"
    /\ last.ret = Some(last.item)
    /\ Len(handed) = 1 /\ handed[1].by = "caller"
    /\ started /\ ~complete /\ buf # <<>> /\ total_length > 0

\* C19: no assembled message is lost under backpressure: the session leaves
\* Ready-to-emit only when the upstream accepted the synthetic message; when
\* upstream.start_send did not accept it (NotReady hands it back), the session
\* still holds the whole message, ready to be emitted again.
C19_NoMessageLostOnNotReady ==
    \A i \in SessionHanded :
        handed[i].answer # "ready"
            => (started /\ complete /\ BuildBase(Self) = handed[i].pre)

\* the errors of an emission attempt that failed before the reset
EmissionErrors ==
    {"extension decode failed", "invalid UTF-8 in text frame",
     "upstream start_send failed"}

\* the step ran the emission path of poll_complete, or at least its guard
FlushRan == last'.op = "poll_complete" \/ (last'.op = "poll" /\ last'.flush # "none")

\* C20 (as claimed): after any poll or poll_complete call that returns
\* without an error, the session is never in the state started and complete.
C20_NeverReadyToEmitAfterCall ==
    (pc = "idle" /\ last.op \in {"poll", "poll_complete"} /\ last.result # "err")
        => ~(started /\ complete)

\* C20 (amended): a poll_complete call, or a poll iteration that accumulated
\* a fragment, that ends without an error never leaves started and complete
\* both true; that state is entered only by a poll whose emission attempt
\* failed (decode error, final UTF-8 failure, upstream.start_send error),
\* such a failure leaves the session unreset, and the state then lasts
\* through every later call until an emission reaches upstream.start_send
\* without error.
C20_ReadyToEmitOnlyAfterFailedEmission ==
    [][/\ (FlushRan /\ last'.result # "err") => ~(started' /\ complete')
       /\ (~(started /\ complete) /\ started' /\ complete')
            => (last'.op = "poll" /\ last'.result = "err"
                /\ last'.error \in EmissionErrors)
       /\ (last'.op \in {"poll", "poll_complete"} /\ last'.error \in EmissionErrors)
            => (started' /\ complete' /\ opcode' # "Close")
       /\ (started /\ complete /\ ~(started' /\ complete'))
            => (\E i \in 1..Len(handed') :
                    handed'[i].by = "session" /\ handed'[i].answer # "err")
      ]_vars

C20_Witness ==
    /\ pc = "idle" /\ last.op = "poll" /\ last.arm = "other"
    /\ last.result = "ready" /\ last.item # None
    /\ started /\ complete
    /\ decodeRuns >= 1

====
